---------------------------- MODULE Spec2Model ----------------------------
(***************************************************************************)
(* A model of the three CTM -> BigQuery jobs of this repository:           *)
(*   CTM Accounts sync/main.py  (full replace of the accounts table),      *)
(*   CTM Batch sync/main.py     (batched historical backfill),             *)
(*   CTM Daily Sync/main.py     (daily incremental append).                *)
(* The warehouse is the variable dataset; the vendor API is an input of    *)
(* every job invocation (a chain of pages per endpoint).                   *)
(***************************************************************************)
EXTENDS Integers, Sequences, FiniteSets, TLC

(***************************************************************************)
(* Bounds of the model.                                                    *)
(***************************************************************************)
MaxAccounts == 125      \* largest accounts table of the partitioning specs
MaxCalls == 5           \* get_next_batch_info calls followed in SpecPartition

(***************************************************************************)
(* Program constants.                                                      *)
(***************************************************************************)
accounts_per_batch == 60
OK200 == 200

VARIABLES
    dataset,    \* warehouse dataset ctm_data: table name -> table (a DataFrame)
    calls,      \* SpecPartition: the results of the get_next_batch_info calls so far
    fetch,      \* SpecFetch: one pagination loop, its endpoint and its local state
    recon,      \* SpecReconcile: a frame, a schema, and the frame reconciled to it
    run,        \* the last job invocation: its inputs, what it did and how it ended
    left,       \* the number of job invocations still to follow
    backfilled, \* batch number -> the account ids of the slice its table was written from
    added,      \* the accounts added to the accounts table since the backfill began
    cleaned     \* SpecClean: a column name and what clean_column_name made of it

vars == <<dataset, calls, fetch, recon, cleaned, run, left, backfilled, added>>
jobvars == <<run, left, backfilled, added>>

(***************************************************************************)
(* Python values.  None and optional values are sequences of length 0 / 1, *)
(* so that "x is None" and truthiness of a URL are comparisons of          *)
(* sequences.  A JSON value is a tagged record.                            *)
(***************************************************************************)
None == <<>>
Some(x) == <<x>>
Get(opt) == opt[1]

(***************************************************************************)
(* A job invocation, as the record it leaves in run:                       *)
(*   job     "accounts", "batch" or "daily"                                *)
(*   input   what the vendor answered: the chain of GET /accounts, or the  *)
(*           chain of each account's calls                                 *)
(*   status  how main ended; raised: whether an exception left main        *)
(*   trace   the requests and sleeps, in order                             *)
(*   ops     the warehouse operations, in order                            *)
(*   all     the records accumulated (accounts, or all_calls)              *)
(*   before  the frame handed to standardize_dataframe_schema, if any      *)
(*   schema  what get_table answered, if it was asked and answered         *)
(*   df      the frame handed to to_gbq, if any                            *)
(*   info    what get_next_batch_info returned, if called                  *)
(***************************************************************************)
RunRecord(job, input, status, raised, trace, ops, all, before, schema, df, info) ==
    [job |-> job, input |-> input, status |-> status, raised |-> raised,
     trace |-> trace, ops |-> ops, all |-> all, before |-> before,
     schema |-> schema, df |-> df, info |-> info]

NoRun == RunRecord("none", <<>>, "NONE", FALSE, <<>>, <<>>, <<>>, None, None, None, None)

NoJobYet ==
    /\ run = NoRun
    /\ left = 0
    /\ backfilled = << >>
    /\ added = <<>>

Null == [tag |-> "null", v |-> 0]
Scalar(n) == [tag |-> "scalar", v |-> n]
TimeText(n) == [tag |-> "time_text", v |-> n]
Nested(n) == [tag |-> "nested", v |-> n]
JsonText(n) == [tag |-> "json_text", v |-> n]
Timestamp(n) == [tag |-> "timestamp", v |-> n]
NameOf(id) == [tag |-> "name", v |-> id]

Range(s) == {s[i] : i \in 1..Len(s)}
Min(a, b) == IF a <= b THEN a ELSE b

RECURSIVE Flatten(_)
Flatten(ss) == IF ss = <<>> THEN <<>> ELSE Head(ss) \o Flatten(Tail(ss))

(***************************************************************************)
(* Field and column names are sequences of characters, so that             *)
(* clean_column_name can be computed on them.                              *)
(***************************************************************************)
k_id == <<"i", "d">>
k_name == <<"n", "a", "m", "e">>
k_user_role == <<"u", "s", "e", "r", "_", "r", "o", "l", "e">>
k_status == <<"s", "t", "a", "t", "u", "s">>
k_created == <<"c", "r", "e", "a", "t", "e", "d">>
k_updated == <<"u", "p", "d", "a", "t", "e", "d">>
k_canceled == <<"c", "a", "n", "c", "e", "l", "e", "d">>
k_agency_id == <<"a", "g", "e", "n", "c", "y", "_", "i", "d">>
k_called_at == <<"c", "a", "l", "l", "e", "d", "_", "a", "t">>
k_billed_at == <<"b", "i", "l", "l", "e", "d", "_", "a", "t">>
k_account_id == <<"a", "c", "c", "o", "u", "n", "t", "_", "i", "d">>
k_account_name == <<"a", "c", "c", "o", "u", "n", "t", "_", "n", "a", "m", "e">>
k_batch_number == <<"b", "a", "t", "c", "h", "_", "n", "u", "m", "b", "e", "r">>
k_processed_at == <<"p", "r", "o", "c", "e", "s", "s", "e", "d", "_", "a", "t">>
\* names the vendor uses that are not warehouse-safe
k_tags == <<"t", "a", "g", "s">>
k_Caller_ID == <<"C", "a", "l", "l", "e", "r", " ", "I", "D">>
k_url == <<"u", "r", "l">>

(***************************************************************************)
(* A Python dict (a JSON object): its items in insertion order.            *)
(***************************************************************************)
Item(k, v) == [k |-> k, v |-> v]
Keys(d) == [i \in 1..Len(d) |-> d[i].k]
HasKey(d, k) == \E i \in 1..Len(d) : d[i].k = k
Lookup(d, k) == d[CHOOSE i \in 1..Len(d) : d[i].k = k].v
\* d[k] = v
SetItem(d, k, v) ==
    IF HasKey(d, k)
    THEN [i \in 1..Len(d) |-> IF d[i].k = k THEN Item(k, v) ELSE d[i]]
    ELSE Append(d, Item(k, v))

(***************************************************************************)
(* pandas DataFrame: nrows rows, and the columns in order, each a label    *)
(* and its nrows values.  Labels need not be distinct.                     *)
(***************************************************************************)
DataFrame(n, cs) == [nrows |-> n, cols |-> cs]
Column(name, vals) == [name |-> name, values |-> vals]
Columns(df) == [i \in 1..Len(df.cols) |-> df.cols[i].name]
Labels(df) == {df.cols[i].name : i \in 1..Len(df.cols)}
ColumnOf(df, name) == df.cols[CHOOSE i \in 1..Len(df.cols) : df.cols[i].name = name]

(***************************************************************************)
(* Warehouse table names.  A name is its fixed text and, for a batch       *)
(* table, the number that follows it.                                      *)
(***************************************************************************)
BatchPrefix == "activities_raw_batch_"
AccountsTable == [base |-> "accounts", n |-> 0]
DailyTable == [base |-> "activities_raw_daily", n |-> 0]
BatchTable(k) == [base |-> BatchPrefix, n |-> k]
StartsWithBatchPrefix(name) == name.base = BatchPrefix

AddTable(ds, name, df) ==
    [t \in DOMAIN ds \cup {name} |-> IF t = name THEN df ELSE ds[t]]

AccountsFrame(ids) ==
    DataFrame(Len(ids),
              << Column(k_id, [i \in 1..Len(ids) |-> Scalar(ids[i])]),
                 Column(k_name, [i \in 1..Len(ids) |-> NameOf(ids[i])]) >>)

(***************************************************************************)
(* CTM Batch sync/main.py: get_all_accounts.                               *)
(* SELECT id, name FROM accounts ORDER BY id ASC, as a list of (id, name). *)
(***************************************************************************)
\* Row i goes to place rank[i]: after every row of a smaller id, and after the
\* rows of the same id stored before it.  A null id sorts first.
OrderByIdAsc(rows) ==
    LET n == Len(rows)
        rank == [i \in 1..n |->
                    Cardinality({j \in 1..n : rows[j].id.v < rows[i].id.v})
                  + Cardinality({j \in 1..(i-1) : rows[j].id.v = rows[i].id.v}) + 1] \o <<>>
    IN  [k \in 1..n |-> rows[CHOOSE i \in 1..n : rank[i] = k]]

\* The rows of the accounts table as (id, name), in the order they are stored.
AccountRows(ds) ==
    LET t == ds[AccountsTable]
    IN  [i \in 1..t.nrows |-> [id |-> ColumnOf(t, k_id).values[i],
                               name |-> ColumnOf(t, k_name).values[i]]]

\* get_all_accounts without its ORDER BY.
get_all_accounts_unordered(ds) == AccountRows(ds)

get_all_accounts(ds) == OrderByIdAsc(AccountRows(ds))

(***************************************************************************)
(* CTM Batch sync/main.py: get_existing_batch_tables.  list_ok is whether  *)
(* get_dataset / list_tables answered; on an exception the list is empty.  *)
(* The listing is any order of the matching names: only its length is read.*)
(***************************************************************************)
ListTables(S) ==
    LET place(t) == Cardinality({u \in S : u.n < t.n}) + 1
    IN  [i \in 1..Cardinality(S) |-> CHOOSE t \in S : place(t) = i]

\* get_existing_batch_tables without its startswith test.
get_existing_batch_tables_unfiltered(ds, list_ok) ==
    IF list_ok
    THEN ListTables(DOMAIN ds)
    ELSE <<>>

get_existing_batch_tables(ds, list_ok) ==
    IF list_ok
    THEN ListTables({t \in DOMAIN ds : StartsWithBatchPrefix(t)})
    ELSE <<>>

(***************************************************************************)
(* CTM Batch sync/main.py: get_next_batch_info.  Python's slice            *)
(* all_accounts[start_idx:end_idx] is SubSeq(start_idx + 1, end_idx).      *)
(***************************************************************************)
BatchInfo(num, accts, s, e) ==
    [batch_num |-> num, batch_accounts |-> accts, start_idx |-> s, end_idx |-> e]

\* get_next_batch_info with "start_idx > len(all_accounts)" for ">=".
NextBatchOfStrict(all_accounts, existing_batches) ==
    LET batch_num == Len(existing_batches) + 1
        start_idx == (batch_num - 1) * accounts_per_batch
        end_idx == Min(start_idx + accounts_per_batch, Len(all_accounts))
    IN  IF start_idx > Len(all_accounts)
        THEN BatchInfo(None, <<>>, 0, 0)
        ELSE BatchInfo(Some(batch_num),
                       SubSeq(all_accounts, start_idx + 1, end_idx),
                       start_idx, end_idx)

NextBatchOf(all_accounts, existing_batches) ==
    LET batch_num == Len(existing_batches) + 1
        start_idx == (batch_num - 1) * accounts_per_batch
        end_idx == Min(start_idx + accounts_per_batch, Len(all_accounts))
    IN  IF start_idx >= Len(all_accounts)
        THEN BatchInfo(None, <<>>, 0, 0)
        ELSE BatchInfo(Some(batch_num),
                       SubSeq(all_accounts, start_idx + 1, end_idx),
                       start_idx, end_idx)

get_next_batch_info(ds, list_ok) ==
    NextBatchOf(get_all_accounts(ds), get_existing_batch_tables(ds, list_ok))

(***************************************************************************)
(* SpecPartition: the partitioner alone.  From an accounts table of any    *)
(* size up to MaxAccounts and no batch table, get_next_batch_info is       *)
(* called again and again, and the table of the batch it computed is       *)
(* added to the dataset after each call.                                   *)
(***************************************************************************)
EmptyFrame == DataFrame(0, <<>>)

\* The ids of an accounts table of n rows, in the order the rows are stored.
\* The vendor's ids are not consecutive and the table is not stored sorted.
StoredIds(n) == [i \in 1..n |-> 3 * (n + 1 - i) + 7]

InitPartition ==
    /\ \E n \in 0..MaxAccounts :
          dataset = [t \in {AccountsTable} |-> AccountsFrame(StoredIds(n))]
    /\ calls = <<>>
    /\ fetch = None
    /\ recon = None
    /\ cleaned = None
    /\ NoJobYet

PartitionCall ==
    /\ Len(calls) < MaxCalls
    /\ LET info == get_next_batch_info(dataset, TRUE)
       IN  /\ calls' = Append(calls, info)
           /\ dataset' = IF info.batch_num = None
                         THEN dataset
                         ELSE AddTable(dataset, BatchTable(Get(info.batch_num)), EmptyFrame)
    /\ UNCHANGED <<fetch, recon, cleaned, jobvars>>

NextPartition == PartitionCall

SpecPartition == InitPartition /\ [][NextPartition]_vars

(***************************************************************************)
(* The vendor API.  An endpoint is a chain of pages; page i of a chain of  *)
(* k pages carries next_page (the URL of page i + 1) exactly when i < k.   *)
(* A URL is the endpoint, the page it points at and the query parameters   *)
(* it encodes; the base URL encodes none, a next_page URL encodes those of *)
(* the request it answers.                                                 *)
(***************************************************************************)
REQUESTS_PER_SECOND == 8
SLEEP_SECONDS == 1000 \div REQUESTS_PER_SECOND     \* in milliseconds

Page(status, records) == [status |-> status, records |-> records]
Url(scope, page, query) == [scope |-> scope, page |-> page, query |-> query]
BaseUrl(scope) == Url(scope, 1, {})
AccountsScope == [endpoint |-> "accounts", account |-> Null]
CallsScope(account_id) == [endpoint |-> "calls", account |-> account_id]

\* requests.get(url, headers=headers, params=params) against the chain.
Response(url, params, chain) ==
    LET p == chain[url.page]
        sent == url.query \cup (IF params = None THEN {} ELSE Get(params))
    IN  [status_code |-> p.status,
         records |-> IF p.status = OK200 THEN p.records ELSE <<>>,
         next_page |-> IF p.status = OK200 /\ url.page < Len(chain)
                       THEN Some(Url(url.scope, url.page + 1, sent))
                       ELSE None]

GetEvent(url, params, resp) ==
    [op |-> "get", url |-> Some(url), params |-> params,
     status |-> resp.status_code, next |-> resp.next_page]
SleepEvent == [op |-> "sleep", url |-> None, params |-> None,
               status |-> SLEEP_SECONDS, next |-> None]

(***************************************************************************)
(* The three pagination loops.  A loop's state is its local variables, the *)
(* requests and sleeps it has made (trace) and where it is: "loop" (about  *)
(* to test "while url"), "returned" or "raised".  Each Step operator is    *)
(* one test of the loop condition followed, when it holds, by one pass     *)
(* through the loop body.                                                  *)
(***************************************************************************)
LoopState(url, params, all, trace, pc) ==
    [url |-> url, params |-> params, all |-> all, trace |-> trace, pc |-> pc]

\* CTM Accounts sync/main.py: fetch_all_accounts
AccountsFetchStart == LoopState(Some(BaseUrl(AccountsScope)), Some({"per_page"}), <<>>, <<>>, "loop")

\* fetch_all_accounts without its "params = None".
AccountsFetchStepKeepingParams(L, chain) ==
    IF L.url = None
    THEN [L EXCEPT !.pc = "returned"]
    ELSE LET resp == Response(Get(L.url), L.params, chain)
             trace == Append(L.trace, GetEvent(Get(L.url), L.params, resp))
         IN  IF resp.status_code # OK200
             THEN [L EXCEPT !.trace = trace, !.pc = "raised"]
             ELSE LoopState(resp.next_page, L.params, L.all \o resp.records, trace, "loop")

AccountsFetchStep(L, chain) ==
    IF L.url = None
    THEN [L EXCEPT !.pc = "returned"]
    ELSE LET resp == Response(Get(L.url), L.params, chain)
             trace == Append(L.trace, GetEvent(Get(L.url), L.params, resp))
         IN  IF resp.status_code # OK200
             THEN [L EXCEPT !.trace = trace, !.pc = "raised"]
             ELSE LoopState(resp.next_page,
                            IF resp.next_page # None THEN None ELSE L.params,
                            L.all \o resp.records, trace, "loop")

\* fetch_all_calls_for_account sleeping only when there is no next page.
BatchFetchStepSleepingLast(L, chain) ==
    IF L.url = None
    THEN [L EXCEPT !.pc = "returned"]
    ELSE LET resp == Response(Get(L.url), L.params, chain)
             trace == Append(L.trace, GetEvent(Get(L.url), L.params, resp))
         IN  IF resp.status_code # OK200
             THEN [L EXCEPT !.trace = trace, !.pc = "returned"]
             ELSE LoopState(resp.next_page, None, L.all \o resp.records,
                            IF resp.next_page = None THEN Append(trace, SleepEvent)
                            ELSE trace, "loop")

\* fetch_all_calls_for_account answering a non-200 page with "return []".
BatchFetchStepDiscards(L, chain) ==
    IF L.url = None
    THEN [L EXCEPT !.pc = "returned"]
    ELSE LET resp == Response(Get(L.url), L.params, chain)
             trace == Append(L.trace, GetEvent(Get(L.url), L.params, resp))
         IN  IF resp.status_code # OK200
             THEN [L EXCEPT !.all = <<>>, !.trace = trace, !.pc = "returned"]
             ELSE LoopState(resp.next_page, None, L.all \o resp.records,
                            Append(trace, SleepEvent), "loop")

\* CTM Batch sync/main.py: fetch_all_calls_for_account
BatchFetchStart(account_id) ==
    LoopState(Some(BaseUrl(CallsScope(account_id))), Some({"per_page"}), <<>>, <<>>, "loop")

BatchFetchStep(L, chain) ==
    IF L.url = None
    THEN [L EXCEPT !.pc = "returned"]
    ELSE LET resp == Response(Get(L.url), L.params, chain)
             trace == Append(L.trace, GetEvent(Get(L.url), L.params, resp))
         IN  IF resp.status_code # OK200
             THEN [L EXCEPT !.trace = trace, !.pc = "returned"]
             ELSE LoopState(resp.next_page, None, L.all \o resp.records,
                            Append(trace, SleepEvent), "loop")

\* fetch_all_calls_for_account answering a non-200 page with "break", as
\* the batch job's does.
DailyFetchStepBreaks(L, chain) == BatchFetchStep(L, chain)

\* fetch_all_calls_for_account leaving the loop as soon as next_page is
\* absent, before the page's records are added.
DailyFetchStepEarlyExit(L, chain) ==
    IF L.url = None
    THEN [L EXCEPT !.pc = "returned"]
    ELSE LET resp == Response(Get(L.url), L.params, chain)
             trace == Append(L.trace, GetEvent(Get(L.url), L.params, resp))
         IN  IF resp.status_code # OK200
             THEN [L EXCEPT !.trace = trace, !.pc = "raised"]
             ELSE IF resp.next_page = None
             THEN [L EXCEPT !.trace = trace, !.pc = "returned"]
             ELSE LoopState(resp.next_page, None, L.all \o resp.records,
                            Append(trace, SleepEvent), "loop")

\* CTM Daily Sync/main.py: fetch_all_calls_for_account
DailyFetchStart(account_id) ==
    LoopState(Some(BaseUrl(CallsScope(account_id))),
              Some({"per_page", "start_date", "end_date"}), <<>>, <<>>, "loop")

DailyFetchStep(L, chain) ==
    IF L.url = None
    THEN [L EXCEPT !.pc = "returned"]
    ELSE LET resp == Response(Get(L.url), L.params, chain)
             trace == Append(L.trace, GetEvent(Get(L.url), L.params, resp))
         IN  IF resp.status_code # OK200
             THEN [L EXCEPT !.trace = trace, !.pc = "raised"]
             ELSE LoopState(resp.next_page, None, L.all \o resp.records,
                            Append(trace, SleepEvent), "loop")

FetchStart(job, account_id) ==
    CASE job = "accounts" -> AccountsFetchStart
      [] job = "batch" -> BatchFetchStart(account_id)
      [] job = "daily" -> DailyFetchStart(account_id)

FetchStep(job, L, chain) ==
    CASE job = "accounts" -> AccountsFetchStep(L, chain)
      [] job = "batch" -> BatchFetchStep(L, chain)
      [] job = "daily" -> DailyFetchStep(L, chain)

\* The loop run to its end.
RECURSIVE RunLoop(_, _, _)
RunLoop(job, L, chain) ==
    IF L.pc # "loop" THEN L ELSE RunLoop(job, FetchStep(job, L, chain), chain)

fetch_all_accounts(chain) == RunLoop("accounts", AccountsFetchStart, chain)
Batch_fetch_all_calls_for_account(account_id, chain) ==
    RunLoop("batch", BatchFetchStart(account_id), chain)
Daily_fetch_all_calls_for_account(account_id, chain) ==
    RunLoop("daily", DailyFetchStart(account_id), chain)

(***************************************************************************)
(* The answers the vendor may give.  A page is of a kind: "E" a non-200    *)
(* answer, "P0" / "P1" / "P2" a 200 answer of 0, 1 or 2 records, "PB" a    *)
(* 200 answer of one record that has none of the known fields.  A chain    *)
(* has its "E", if any, as its last page: nothing is requested after it.   *)
(***************************************************************************)
MaxPages == 3          \* pages of a chain
HTTP_ERROR == 500

PageKinds == {"E", "P0", "P1", "P2", "PB"}
KindChains(kinds, maxlen) ==
    UNION {{c \in [1..n -> kinds] : \A i \in 1..(n-1) : c[i] # "E"} : n \in 1..maxlen}

\* An account of the vendor, as GET /accounts lists it.
AccountRecord(id) ==
    << Item(k_id, Scalar(id)), Item(k_name, NameOf(id)), Item(k_url, Scalar(id)),
       Item(k_status, Scalar(1)), Item(k_created, TimeText(id)) >>
BareRecord(id) == << Item(k_url, Scalar(id)) >>

\* A call of an account, as GET /accounts/{id}/calls lists it: the calls of
\* odd pages and of even pages carry different fields.
CallRecord(account_id, page, j) ==
    LET id == Scalar(100 * account_id.v + 10 * page + j)
    IN  IF page % 2 = 1
        THEN << Item(k_id, id), Item(k_called_at, TimeText(page)), Item(k_tags, Nested(j)) >>
        ELSE << Item(k_id, id), Item(k_Caller_ID, Scalar(j)), Item(k_billed_at, Scalar(page)) >>

\* The number of records of a page of this kind.
RecordCount(kind) ==
    CASE kind = "P1" -> 1
      [] kind = "P2" -> 2
      [] OTHER -> 0

AccountsPage(kind, p) ==
    CASE kind = "E" -> Page(HTTP_ERROR, <<>>)
      [] kind = "PB" -> Page(OK200, << BareRecord(2 * (p - 1) + 1) >>)
      [] OTHER -> Page(OK200, [j \in 1..RecordCount(kind) |->
                                 AccountRecord(2 * (p - 1) + j)] \o <<>>)

CallsPage(kind, account_id, p) ==
    CASE kind = "E" -> Page(HTTP_ERROR, <<>>)
      [] kind = "PB" -> Page(OK200, << BareRecord(p) >>)
      [] OTHER -> Page(OK200, [j \in 1..RecordCount(kind) |->
                                 CallRecord(account_id, p, j)] \o <<>>)

AccountsChain(kc) == [p \in 1..Len(kc) |-> AccountsPage(kc[p], p)]
CallsChain(kc, account_id) == [p \in 1..Len(kc) |-> CallsPage(kc[p], account_id, p)]

(***************************************************************************)
(* pandas.                                                                 *)
(***************************************************************************)
\* The keys of the records in the order they first appear.
KeysInOrder(records) ==
    LET seen == Flatten([r \in 1..Len(records) |-> Keys(records[r])])
        firsts == {i \in 1..Len(seen) : \A j \in 1..(i-1) : seen[j] # seen[i]}
    IN  [k \in 1..Cardinality(firsts) |->
            seen[CHOOSE i \in firsts : Cardinality({j \in firsts : j < i}) = k - 1]]

\* pd.DataFrame(records), pd.json_normalize(records) of records without
\* nested values: a column per key, a row per record, null where a record
\* has no such key.
FrameOfRecords(records) ==
    LET ks == KeysInOrder(records) \o <<>>
    IN  DataFrame(Len(records),
                  [c \in 1..Len(ks) |->
                      Column(ks[c], [r \in 1..Len(records) |->
                                        IF HasKey(records[r], ks[c])
                                        THEN Lookup(records[r], ks[c]) ELSE Null])])

\* pd.to_datetime(value, errors='coerce'): a value that does not parse is NaT.
ToDatetime(v) == IF v.tag \in {"time_text", "timestamp"} THEN Timestamp(v.v) ELSE Null

\* df[col] = pd.to_datetime(df[col], errors='coerce') for each col of date_cols in df
ConvertTimestamps(df, date_cols) ==
    DataFrame(df.nrows,
              [c \in 1..Len(df.cols) |->
                  IF df.cols[c].name \in date_cols
                  THEN Column(df.cols[c].name,
                              [r \in 1..df.nrows |-> ToDatetime(df.cols[c].values[r])])
                  ELSE df.cols[c]])

\* df[labels]: for each label in turn, every column of df that carries it.
SelectColumns(df, labels) ==
    DataFrame(df.nrows,
              Flatten([k \in 1..Len(labels) |->
                          SelectSeq(df.cols, LAMBDA col : col.name = labels[k])]))

\* df.drop(columns=labels)
DropColumns(df, labels) ==
    DataFrame(df.nrows, SelectSeq(df.cols, LAMBDA col : col.name \notin labels))

\* df[label] = None: a new last column, or every value of the column replaced.
AssignNull(df, label) ==
    LET nulls == [r \in 1..df.nrows |-> Null]
    IN  IF label \in Labels(df)
        THEN DataFrame(df.nrows,
                       [c \in 1..Len(df.cols) |->
                           IF df.cols[c].name = label THEN Column(label, nulls)
                           ELSE df.cols[c]])
        ELSE DataFrame(df.nrows, Append(df.cols, Column(label, nulls)))

\* df.empty: no row or no column
IsEmptyFrame(df) == df.nrows = 0 \/ df.cols = <<>>

(***************************************************************************)
(* clean_column_name (CTM Batch sync/main.py, CTM Daily Sync/main.py: the  *)
(* same text in both).                                                     *)
(***************************************************************************)
LowerLetters == <<"a", "b", "c", "d", "e", "f", "g", "h", "i", "j", "k", "l", "m",
                  "n", "o", "p", "q", "r", "s", "t", "u", "v", "w", "x", "y", "z">>
UpperLetters == <<"A", "B", "C", "D", "E", "F", "G", "H", "I", "J", "K", "L", "M",
                  "N", "O", "P", "Q", "R", "S", "T", "U", "V", "W", "X", "Y", "Z">>
Digits == {"0", "1", "2", "3", "4", "5", "6", "7", "8", "9"}
IsLetter(ch) == ch \in Range(LowerLetters) \cup Range(UpperLetters)
\* str.lower() of one character
LowerChar(ch) ==
    IF ch \in Range(UpperLetters)
    THEN LowerLetters[CHOOSE i \in 1..Len(UpperLetters) : UpperLetters[i] = ch]
    ELSE ch

\* clean_column_name with the '_' put in front whatever the name starts with.
clean_column_name_prefixing(col) ==
    LET subbed == [i \in 1..Len(col) |->
                     IF IsLetter(col[i]) \/ col[i] \in Digits \/ col[i] = "_"
                     THEN col[i] ELSE "_"]
        led == <<"_">> \o subbed
    IN  [i \in 1..Len(led) |-> LowerChar(led[i])]

clean_column_name(col) ==
    LET \* re.sub(r'[^a-zA-Z0-9_]', '_', col)
        subbed == [i \in 1..Len(col) |->
                     IF IsLetter(col[i]) \/ col[i] \in Digits \/ col[i] = "_"
                     THEN col[i] ELSE "_"]
        \* if not re.match(r'^[a-zA-Z_]', col): col = '_' + col
        led == IF subbed # <<>> /\ (IsLetter(subbed[1]) \/ subbed[1] = "_")
               THEN subbed ELSE <<"_">> \o subbed
    IN  [i \in 1..Len(led) |-> LowerChar(led[i])]

\* df.columns = [clean_column_name(c) for c in df.columns]
CleanColumns(df) ==
    DataFrame(df.nrows,
              [c \in 1..Len(df.cols) |->
                  Column(clean_column_name(df.cols[c].name), df.cols[c].values)])

(***************************************************************************)
(* pandas_gbq.to_gbq and the warehouse's answers.                          *)
(***************************************************************************)
HasTable(ds, name) == name \in DOMAIN ds

\* The rows of df appended to table t, column by column of t, null where df
\* has no such column.
AppendRows(t, df) ==
    DataFrame(t.nrows + df.nrows,
              [c \in 1..Len(t.cols) |->
                  Column(t.cols[c].name,
                         t.cols[c].values \o
                         (IF t.cols[c].name \in Labels(df)
                          THEN ColumnOf(df, t.cols[c].name).values
                          ELSE [r \in 1..df.nrows |-> Null]))])

\* to_gbq(df, name, if_exists=mode): the dataset after it, and whether it
\* raised.  "replace" puts df in place of the table; "append" makes the table
\* when there is none, and otherwise loads df's rows when every column of df
\* is a column of the table: the warehouse refuses any other load.
ToGbq(ds, name, df, mode) ==
    IF Cardinality(Labels(df)) # Len(df.cols)
    THEN [raised |-> TRUE, dataset |-> ds]
    ELSE IF mode = "replace" \/ ~HasTable(ds, name)
    THEN [raised |-> FALSE, dataset |-> AddTable(ds, name, df)]
    ELSE IF Labels(df) \subseteq Labels(ds[name])
    THEN [raised |-> FALSE, dataset |-> AddTable(ds, name, AppendRows(ds[name], df))]
    ELSE [raised |-> TRUE, dataset |-> ds]

\* table.schema of a warehouse table: a field per column, in order.
Field(name, field_type) == [name |-> name, field_type |-> field_type]
FieldTypeOf(col) ==
    IF \E r \in 1..Len(col.values) : col.values[r].tag = "timestamp"
    THEN "TIMESTAMP" ELSE "STRING"
SchemaOf(t) == [c \in 1..Len(t.cols) |-> Field(t.cols[c].name, FieldTypeOf(t.cols[c]))]
FieldNames(schema) == [i \in 1..Len(schema) |-> schema[i].name]

\* bq_client.get_table(table_ref).schema, or None when get_table raises: the
\* table is not there, or the warehouse does not answer (lookup_ok false).
GetTableSchema(ds, name, lookup_ok) ==
    IF lookup_ok /\ HasTable(ds, name) THEN Some(SchemaOf(ds[name])) ELSE None

(***************************************************************************)
(* CTM Daily Sync/main.py: standardize_dataframe_schema.  schema is what   *)
(* get_table gave (None when it raised: the except branch returns df).     *)
(***************************************************************************)
\* lines 94-105: the default of a missing column, by field type
DefaultValue(field_type) ==
    CASE field_type \in {"STRING", "TEXT"} -> Null
      [] field_type \in {"INTEGER", "INT64"} -> Null
      [] field_type \in {"FLOAT", "FLOAT64", "NUMERIC"} -> Null
      [] field_type \in {"BOOLEAN", "BOOL"} -> Null
      [] field_type \in {"TIMESTAMP", "DATETIME", "DATE", "TIME"} -> Null
      [] OTHER -> Null

\* df[col] = default, for every col of missing
RECURSIVE AddMissing(_, _)
AddMissing(df, missing) ==
    IF missing = {} THEN df
    ELSE LET col == CHOOSE f \in missing : TRUE
         IN  AddMissing(DataFrame(df.nrows,
                                  Append(df.cols,
                                         Column(col.name,
                                                [r \in 1..df.nrows |->
                                                    DefaultValue(col.field_type)]))),
                        missing \ {col})

\* standardize_dataframe_schema whose except branch returns an empty frame.
standardize_or_empty(df, schema) ==
    IF schema = None
    THEN DataFrame(0, <<>>)
    ELSE LET fields == Get(schema)
             expected == {fields[i].name : i \in 1..Len(fields)}
             missing == {fields[i] : i \in {j \in 1..Len(fields) : fields[j].name \notin Labels(df)}}
             filled == AddMissing(df, missing)
             extra == Labels(filled) \ expected
             kept == IF extra # {} THEN DropColumns(filled, extra) ELSE filled
         IN  SelectColumns(kept, FieldNames(fields))

standardize_dataframe_schema(df, schema) ==
    IF schema = None
    THEN df
    ELSE LET fields == Get(schema)
             expected == {fields[i].name : i \in 1..Len(fields)}
             missing == {fields[i] : i \in {j \in 1..Len(fields) : fields[j].name \notin Labels(df)}}
             filled == AddMissing(df, missing)
             extra == Labels(filled) \ expected
             kept == IF extra # {} THEN DropColumns(filled, extra) ELSE filled
         IN  SelectColumns(kept, FieldNames(fields))

(***************************************************************************)
(* CTM Accounts sync/main.py                                               *)
(***************************************************************************)
columns_to_keep ==
    <<k_id, k_name, k_user_role, k_status, k_created, k_updated, k_canceled, k_agency_id>>
timestamp_columns == {k_created, k_updated, k_canceled}

process_accounts_data(accounts) ==
    IF accounts = <<>>
    THEN None
    ELSE LET df == FrameOfRecords(accounts)
             existing_columns == SelectSeq(columns_to_keep, LAMBDA col : col \in Labels(df))
         IN  Some(ConvertTimestamps(SelectColumns(df, existing_columns), timestamp_columns))

\* upload_to_bigquery with if_exists='append'.
upload_appending(ds, df) == ToGbq(ds, AccountsTable, df, "append")

upload_to_bigquery(ds, df) == ToGbq(ds, AccountsTable, df, "replace")

\* main: the dataset after it and the record of the run.
AccountsMain(ds, chain) ==
    LET F == fetch_all_accounts(chain)
        accounts == F.all
        df == process_accounts_data(accounts)
        up == upload_to_bigquery(ds, Get(df))
        rec(status, raised, ops, frame) ==
            RunRecord("accounts", chain, status, raised, F.trace, ops, accounts,
                      None, None, frame, None)
    IN  IF F.pc = "raised"
        THEN [dataset |-> ds, run |-> rec("FAILED", TRUE, <<>>, None)]
        ELSE IF accounts = <<>>
        THEN [dataset |-> ds, run |-> rec("SUCCESS", FALSE, <<>>, None)]
        ELSE IF df = None \/ IsEmptyFrame(Get(df))
        THEN [dataset |-> ds, run |-> rec("NO_VALID_DATA", FALSE, <<>>, None)]
        ELSE IF up.raised
        THEN [dataset |-> ds, run |-> rec("FAILED", TRUE, <<"to_gbq_replace">>, df)]
        ELSE [dataset |-> up.dataset, run |-> rec("SUCCESS", FALSE, <<"to_gbq_replace">>, df)]

(***************************************************************************)
(* What both call jobs do to the calls of an account.                      *)
(***************************************************************************)
\* for k, v in call.items(): if isinstance(v, (dict, list)): call[k] = json.dumps(v)
DumpNested(call) ==
    [i \in 1..Len(call) |->
        IF call[i].v.tag = "nested" THEN Item(call[i].k, JsonText(call[i].v.v)) ELSE call[i]]

RECURSIVE SetItems(_, _)
SetItems(call, items) ==
    IF items = <<>> THEN call
    ELSE SetItems(SetItem(call, Head(items).k, Head(items).v), Tail(items))

date_cols == {k_called_at, k_billed_at}

\* json_normalize, the timestamp conversion and the cleaning of the names
CallsFrame(all_calls) ==
    CleanColumns(ConvertTimestamps(FrameOfRecords(all_calls), date_cols))

(***************************************************************************)
(* CTM Daily Sync/main.py                                                  *)
(***************************************************************************)
\* SELECT id, name FROM accounts: there is no ORDER BY; the stored order is
\* one order the warehouse may answer in.
get_active_accounts(ds) == AccountRows(ds)

DailyTag(call, account) ==
    DumpNested(SetItems(call, << Item(k_account_id, account.id),
                                 Item(k_account_name, account.name) >>))

\* for account_id, account_name in accounts: ...   (lines 191-207)
\* acc is all_calls, the trace, accounts_processed, and whether a fetch raised.
RECURSIVE DailyAccountsLoop(_, _, _)
DailyAccountsLoop(accounts, api, acc) ==
    IF accounts = <<>> \/ acc.raised
    THEN acc
    ELSE LET account == Head(accounts)
             F == Daily_fetch_all_calls_for_account(account.id, api[account.id])
             tagged == [i \in 1..Len(F.all) |-> DailyTag(F.all[i], account)]
         IN  DailyAccountsLoop(
                 Tail(accounts), api,
                 IF F.pc = "raised"
                 THEN [acc EXCEPT !.trace = @ \o F.trace, !.raised = TRUE]
                 ELSE [all |-> acc.all \o tagged, trace |-> acc.trace \o F.trace,
                       accounts_processed |-> acc.accounts_processed + 1,
                       raised |-> FALSE])

\* main without its "if not all_calls" branch.
NoCallsIgnored(all_calls) == FALSE

\* if not all_calls
NoCalls(all_calls) == all_calls = <<>>

LoopStart == [all |-> <<>>, trace |-> <<>>, accounts_processed |-> 0, raised |-> FALSE]

\* main.  api: account id -> the chain of its calls endpoint; lookup_ok:
\* whether the warehouse answers get_table.
DailyMain(ds, api, lookup_ok) ==
    LET accounts == get_active_accounts(ds)
        R == DailyAccountsLoop(accounts, api, LoopStart)
        df == CallsFrame(R.all)
        schema == GetTableSchema(ds, DailyTable, lookup_ok)
        std == standardize_dataframe_schema(df, schema)
        up == ToGbq(ds, DailyTable, std, "append")
        asked == <<"query_accounts">>
        wrote == <<"query_accounts", "get_table", "to_gbq_append">>
        rec(status, raised, trace, ops, all, before, sch, frame) ==
            RunRecord("daily", api, status, raised, trace, ops, all, before, sch, frame, None)
    IN  IF ~HasTable(ds, AccountsTable)
        THEN [dataset |-> ds,
              run |-> rec("FAILED", TRUE, <<>>, asked, <<>>, None, None, None)]
        ELSE IF R.raised
        THEN [dataset |-> ds,
              run |-> rec("FAILED", TRUE, R.trace, asked, R.all, None, None, None)]
        ELSE IF NoCalls(R.all)
        THEN [dataset |-> ds,
              run |-> rec("SUCCESS", FALSE, R.trace, asked, R.all, None, None, None)]
        ELSE IF up.raised
        THEN [dataset |-> ds,
              run |-> rec("FAILED", TRUE, R.trace, wrote, R.all, Some(df), schema, Some(std))]
        ELSE [dataset |-> up.dataset,
              run |-> rec("SUCCESS", FALSE, R.trace, wrote, R.all, Some(df), schema, Some(std))]

(***************************************************************************)
(* CTM Batch sync/main.py: main                                            *)
(***************************************************************************)
\* datetime.datetime.utcnow().isoformat()
UtcNowText == TimeText(0)

BatchTag(call, account, batch_num) ==
    DumpNested(SetItems(call, << Item(k_account_id, account.id),
                                 Item(k_account_name, account.name),
                                 Item(k_batch_number, Scalar(batch_num)),
                                 Item(k_processed_at, UtcNowText) >>))

\* for account_id, account_name in accounts: ...   (lines 178-194).  No pass
\* of the loop ends it early: all_calls is the calls of every account in
\* turn, and the requests are those of every account in turn.
BatchAccountsLoop(accounts, api, batch_num) ==
    LET fetched == [i \in 1..Len(accounts) |->
                       Batch_fetch_all_calls_for_account(accounts[i].id,
                                                         api[accounts[i].id])] \o <<>>
        tagged(i) == [j \in 1..Len(fetched[i].all) |->
                         BatchTag(fetched[i].all[j], accounts[i], batch_num)]
    IN  [all |-> Flatten([i \in 1..Len(accounts) |-> tagged(i)]),
         trace |-> Flatten([i \in 1..Len(accounts) |-> fetched[i].trace]),
         accounts_processed |-> Len(accounts),
         raised |-> FALSE]

\* main.  api: account id -> the chain of its calls endpoint; list_ok: whether
\* the warehouse answers list_tables.  Lines 220-229 call get_next_batch_info
\* once more, only to print what comes next.
BatchMain(ds, api, list_ok) ==
    LET info == get_next_batch_info(ds, list_ok)
        batch_num == Get(info.batch_num)
        R == BatchAccountsLoop(info.batch_accounts, api, batch_num)
        df == CallsFrame(R.all)
        up == ToGbq(ds, BatchTable(batch_num), df, "replace")
        asked == <<"query_accounts", "list_tables">>
        rec(status, raised, trace, ops, all, frame, inf) ==
            RunRecord("batch", api, status, raised, trace, ops, all, None, None, frame, inf)
    IN  IF ~HasTable(ds, AccountsTable)
        THEN [dataset |-> ds,
              run |-> rec("FAILED", TRUE, <<>>, <<"query_accounts">>, <<>>, None, None)]
        ELSE IF info.batch_num = None
        THEN [dataset |-> ds,
              run |-> rec("ALL_DONE", FALSE, <<>>, asked, <<>>, None, Some(info))]
        ELSE IF NoCalls(R.all)
        THEN [dataset |-> ds,
              run |-> rec("NO_CALLS", FALSE, R.trace, asked, R.all, None, Some(info))]
        ELSE IF up.raised
        THEN [dataset |-> ds,
              run |-> rec("FAILED", TRUE, R.trace, asked \o <<"to_gbq_replace">>,
                          R.all, Some(df), Some(info))]
        ELSE [dataset |-> up.dataset,
              run |-> rec("UPLOADED", FALSE, R.trace,
                          asked \o <<"to_gbq_replace">> \o asked,
                          R.all, Some(df), Some(info))]

(***************************************************************************)
(* The job invocations as actions.  The jobs run one at a time.            *)
(***************************************************************************)
MaxRuns == 2            \* job invocations of a behaviour of Spec
MaxCallPages == 2       \* pages of an account's calls endpoint in the jobs
MaxAccountPages == 2    \* pages of GET /accounts in the jobs

AccountsInputs == KindChains(PageKinds, MaxAccountPages)
CallInputs == KindChains({"E", "P0", "P1"}, MaxCallPages)

Ids(rows) == {rows[i].id : i \in 1..Len(rows)}

\* The answers of the calls endpoints to a job that asks for these accounts:
\* any chain for the first and for the last account, and one chain of a
\* single page for all the accounts between them.
ApiInputs(rows) ==
    IF rows = <<>> THEN {<< >>}
    ELSE {[id \in Ids(rows) |->
              IF id = rows[1].id THEN first
              ELSE IF id = rows[Len(rows)].id THEN last
              ELSE CallsChain(<<mid>>, id)] :
          first \in {CallsChain(kc, rows[1].id) : kc \in CallInputs},
          last \in {CallsChain(kc, rows[Len(rows)].id) : kc \in CallInputs},
          mid \in {"P0", "P1"}}

\* Every account answers with the same kind of chain.
UniformApis(rows) ==
    {[id \in Ids(rows) |-> CallsChain(kc, id)] : kc \in {<<"P0">>, <<"P1">>}}

StoredRows(ds) == IF HasTable(ds, AccountsTable) THEN AccountRows(ds) ELSE <<>>

\* get_table and list_tables may fail to answer.  With no table to find
\* they have one outcome, whether the warehouse answers or not.
LookupAnswers(ds) == IF HasTable(ds, DailyTable) THEN BOOLEAN ELSE {TRUE}
ListAnswers(ds) ==
    IF \E t \in DOMAIN ds : StartsWithBatchPrefix(t) THEN BOOLEAN ELSE {TRUE}

Finish(result) ==
    /\ dataset' = result.dataset
    /\ run' = result.run
    /\ left' = left - 1
    /\ UNCHANGED <<calls, fetch, recon, cleaned>>

AccountsJob ==
    /\ left > 0
    /\ \E kc \in AccountsInputs : Finish(AccountsMain(dataset, AccountsChain(kc)))
    /\ UNCHANGED <<backfilled, added>>

DailyJob ==
    /\ left > 0
    /\ \E api \in ApiInputs(StoredRows(dataset)), lookup_ok \in LookupAnswers(dataset) :
          Finish(DailyMain(dataset, api, lookup_ok))
    /\ UNCHANGED <<backfilled, added>>

\* The slice of a batch whose table was written is remembered in backfilled.
BatchRun(api, list_ok) ==
    LET result == BatchMain(dataset, api, list_ok)
    IN  /\ Finish(result)
        /\ backfilled' =
              IF result.run.status = "UPLOADED"
              THEN LET info == Get(result.run.info)
                       n == Get(info.batch_num)
                   IN  [k \in DOMAIN backfilled \cup {n} |->
                           IF k = n
                           THEN [i \in 1..Len(info.batch_accounts) |->
                                    info.batch_accounts[i].id.v]
                           ELSE backfilled[k]]
              ELSE backfilled
        /\ UNCHANGED added

BatchJob ==
    /\ left > 0
    /\ \E api \in ApiInputs(StoredRows(dataset)), list_ok \in ListAnswers(dataset) :
          BatchRun(api, list_ok)

(***************************************************************************)
(* Spec: the three jobs, invoked in any order, MaxRuns times from an empty *)
(* dataset, or MaxRuns - 1 times from the dataset that an accounts sync of *)
(* two accounts and a daily sync of one call each leave behind.            *)
(***************************************************************************)
SeedAccounts == AccountsMain(<< >>, AccountsChain(<<"P2">>)).dataset
SeedApi == [id \in Ids(AccountRows(SeedAccounts)) |-> CallsChain(<<"P1">>, id)]
Seeded == DailyMain(SeedAccounts, SeedApi, TRUE).dataset

Init ==
    /\ calls = <<>>
    /\ fetch = None
    /\ recon = None
    /\ cleaned = None
    /\ run = NoRun
    /\ backfilled = << >>
    /\ added = <<>>
    /\ \/ dataset = << >> /\ left = MaxRuns
       \/ dataset = Seeded /\ left = MaxRuns - 1

Next == AccountsJob \/ DailyJob \/ BatchJob

Spec == Init /\ [][Next]_vars

(***************************************************************************)
(* SpecBatch: the backfill.  The accounts table holds about one slice of   *)
(* accounts and there is no batch table.  The batch job is invoked again   *)
(* and again; between its invocations an accounts sync may list one more   *)
(* account, whose id sorts before, among or after the ids already there    *)
(* and whose row the warehouse may give back first or last.                *)
(***************************************************************************)
MaxBackfillRuns == 3    \* job invocations of a behaviour of SpecBatch
BackfillSizes == {accounts_per_batch - 1, accounts_per_batch, accounts_per_batch + 1}
NewIds == {1, 101, 1000}

\* GET /accounts answering with one page of these accounts.
ListingOf(ids) == << Page(OK200, [i \in 1..Len(ids) |-> AccountRecord(ids[i])]) >>

StoredIdsOf(ds) == [i \in 1..Len(AccountRows(ds)) |-> AccountRows(ds)[i].id.v]
BatchNumbers(ds) == {t.n : t \in {u \in DOMAIN ds : StartsWithBatchPrefix(u)}}

InitBatch ==
    /\ \E n \in BackfillSizes :
          dataset = AccountsMain(<< >>, ListingOf(StoredIds(n))).dataset
    /\ calls = <<>>
    /\ fetch = None
    /\ recon = None
    /\ cleaned = None
    /\ run = NoRun
    /\ left = MaxBackfillRuns
    /\ backfilled = << >>
    /\ added = <<>>

\* An accounts sync whose listing has one account more than the table.
\* added remembers how many batch tables there were and where the account
\* sorts among the ids (from 0).
AccountsGrow ==
    /\ left > 0
    /\ \E id \in NewIds \ Range(StoredIdsOf(dataset)), first \in BOOLEAN :
          LET ids == StoredIdsOf(dataset)
              listing == IF first THEN <<id>> \o ids ELSE Append(ids, id)
          IN  /\ Finish(AccountsMain(dataset, ListingOf(listing)))
              /\ added' = Append(added,
                                 [id |-> id,
                                  tables |-> Cardinality(BatchNumbers(dataset)),
                                  position |-> Cardinality({i \in 1..Len(ids) : ids[i] < id})])
    /\ UNCHANGED backfilled

BackfillJob ==
    /\ left > 0
    /\ \E api \in UniformApis(StoredRows(dataset)), list_ok \in ListAnswers(dataset) :
          BatchRun(api, list_ok)

NextBatch == BackfillJob \/ AccountsGrow

SpecBatch == InitBatch /\ [][NextBatch]_vars

(***************************************************************************)
(* SpecFetch: one pagination loop of one of the three jobs, a step at a    *)
(* time, against any chain of up to MaxPages pages.                        *)
(***************************************************************************)
FetchAccount == Scalar(7)

InitFetch ==
    /\ dataset = << >>
    /\ calls = <<>>
    /\ recon = None
    /\ cleaned = None
    /\ NoJobYet
    /\ \E job \in {"accounts", "batch", "daily"}, kc \in KindChains(PageKinds, MaxPages) :
          fetch = Some([job |-> job,
                        chain |-> IF job = "accounts" THEN AccountsChain(kc)
                                  ELSE CallsChain(kc, FetchAccount),
                        L |-> FetchStart(job, FetchAccount)])

FetchAdvance(job) ==
    /\ fetch # None
    /\ Get(fetch).job = job
    /\ Get(fetch).L.pc = "loop"
    /\ fetch' = Some([Get(fetch) EXCEPT !.L = FetchStep(job, @, Get(fetch).chain)])
    /\ UNCHANGED <<dataset, calls, recon, cleaned, jobvars>>

AccountsFetchAdvance == FetchAdvance("accounts")
BatchFetchAdvance == FetchAdvance("batch")
DailyFetchAdvance == FetchAdvance("daily")

NextFetch == AccountsFetchAdvance \/ BatchFetchAdvance \/ DailyFetchAdvance

SpecFetch == InitFetch /\ [][NextFetch]_vars

(***************************************************************************)
(* SpecReconcile: standardize_dataframe_schema alone, on every frame of up *)
(* to MaxCols columns named from ColNames (a frame may carry a name twice: *)
(* two vendor fields that clean_column_name maps to one name) and every    *)
(* target table of up to MaxCols columns of distinct names.                *)
(***************************************************************************)
MaxCols == 3
MaxRows == 2
ColNames == {<<"a">>, <<"b">>, <<"c">>, <<"d">>}
FieldTypes == <<"STRING", "INTEGER", "TIMESTAMP">>

SeqsUpTo(S, n) == UNION {[1..k -> S] : k \in 0..n}
\* A frame whose every cell is a value of its own.
ReconFrame(labels, nrows) ==
    DataFrame(nrows, [c \in 1..Len(labels) |->
                        Column(labels[c], [r \in 1..nrows |-> Scalar(10 * c + r)])])
ReconSchema(names) == [i \in 1..Len(names) |-> Field(names[i], FieldTypes[i])]

InitReconcile ==
    /\ dataset = << >>
    /\ calls = <<>>
    /\ fetch = None
    /\ cleaned = None
    /\ NoJobYet
    /\ \E labels \in SeqsUpTo(ColNames, MaxCols), nrows \in 1..MaxRows,
          names \in {ns \in SeqsUpTo(ColNames, MaxCols) : Cardinality(Range(ns)) = Len(ns)},
          found \in BOOLEAN :
          recon = Some([df |-> ReconFrame(labels, nrows),
                        schema |-> IF found THEN Some(ReconSchema(names)) ELSE None,
                        out |-> None])

Reconcile ==
    /\ recon # None
    /\ Get(recon).out = None
    /\ recon' = Some([Get(recon) EXCEPT
                         !.out = Some(standardize_dataframe_schema(Get(recon).df,
                                                                   Get(recon).schema))])
    /\ UNCHANGED <<dataset, calls, fetch, cleaned, jobvars>>

NextReconcile == Reconcile

SpecReconcile == InitReconcile /\ [][NextReconcile]_vars

(***************************************************************************)
(* SpecClean: clean_column_name alone, applied to a name of up to          *)
(* MaxNameLen characters and then to its own result.  The characters are   *)
(* one of each kind the two regular expressions and lower() tell apart: a  *)
(* lower-case and an upper-case letter, a digit, the underscore, and three *)
(* characters outside [a-zA-Z0-9_] (a space, a hyphen, an accented         *)
(* capital).                                                               *)
(***************************************************************************)
MaxNameLen == 3
NameChars == {"a", "Q", "7", "_", " ", "-", "É"}

InitClean ==
    /\ dataset = << >>
    /\ calls = <<>>
    /\ fetch = None
    /\ recon = None
    /\ NoJobYet
    /\ \E col \in SeqsUpTo(NameChars, MaxNameLen) :
          cleaned = Some([col |-> col, out |-> <<>>])

\* clean_column_name(col), then clean_column_name of what it returned.
CleanName ==
    /\ cleaned # None
    /\ Len(Get(cleaned).out) < 2
    /\ LET c == Get(cleaned)
           arg == IF c.out = <<>> THEN c.col ELSE c.out[Len(c.out)]
       IN  cleaned' = Some([c EXCEPT !.out = Append(@, clean_column_name(arg) \o <<>>)])
    /\ UNCHANGED <<dataset, calls, fetch, recon, jobvars>>

NextClean == CleanName

SpecClean == InitClean /\ [][NextClean]_vars

(***************************************************************************)
(* C1.  For every ordered account list A, from no batch table, with the    *)
(* table of each computed batch added before the next call: the first      *)
(* ceil(|A|/60) calls of get_next_batch_info return batches 1, 2, ... whose *)
(* slices are non-empty, contiguous (each starts where the one before      *)
(* ended, the first at 0), and whose concatenation is A, every account     *)
(* once; every later call returns batch_num None and no account.           *)
(***************************************************************************)
CeilDiv(a, b) == (a + b - 1) \div b

C1_PartitionCoversOnce ==
    LET A == get_all_accounts(dataset)
        K == CeilDiv(Len(A), accounts_per_batch)
        done == Min(Len(calls), K)
        slices == [i \in 1..done |-> calls[i].batch_accounts]
    IN  /\ \A i \in 1..Len(calls) :
              IF i <= K
              THEN /\ calls[i].batch_num = Some(i)
                   /\ calls[i].batch_accounts # <<>>
                   /\ calls[i].start_idx = (IF i = 1 THEN 0 ELSE calls[i-1].end_idx)
                   /\ calls[i].batch_accounts =
                        SubSeq(A, calls[i].start_idx + 1, calls[i].end_idx)
              ELSE /\ calls[i].batch_num = None
                   /\ calls[i].batch_accounts = <<>>
        /\ Flatten(slices) = SubSeq(A, 1, Len(Flatten(slices)))
        /\ Len(calls) >= K => Flatten(slices) = A
        /\ \A i, j \in 1..Len(A) : i < j => A[i].id.v < A[j].id.v

\* Three batches, the third a partial one, and then the "no more batches" call.
C1_Witness ==
    /\ Len(calls) = 4
    /\ calls[4].batch_num = None
    /\ calls[3].batch_num = Some(3)
    /\ Len(calls[3].batch_accounts) \in 1..(accounts_per_batch - 1)
    /\ Len(calls[1].batch_accounts) = accounts_per_batch

(***************************************************************************)
(* C4.  Each of the three pagination loops, against an endpoint whose      *)
(* pages all answer 200 and whose k-th page is the first without           *)
(* next_page: never raises, never issues more than k requests, has         *)
(* received the records of the pages requested so far, in page order, and  *)
(* when it has returned it has issued exactly k requests, one per page in  *)
(* page order, and returns the concatenation of the records of pages 1..k. *)
(***************************************************************************)
Gets(trace) == SelectSeq(trace, LAMBDA e : e.op = "get")
AllSuccess(chain) == \A i \in 1..Len(chain) : chain[i].status = OK200
PagesConcat(chain, n) == Flatten([i \in 1..n |-> chain[i].records])

C4_PaginationComplete ==
    fetch # None /\ AllSuccess(Get(fetch).chain) =>
        LET f == Get(fetch)
            k == Len(f.chain)
            gets == Gets(f.L.trace)
        IN  /\ f.L.pc \in {"loop", "returned"}
            /\ Len(gets) <= k
            /\ \A i \in 1..Len(gets) : Get(gets[i].url).page = i
            /\ f.L.all = PagesConcat(f.chain, Len(gets))
            /\ f.L.pc = "loop" /\ f.L.url # None => Len(gets) < k
            /\ f.L.pc = "returned" => Len(gets) = k /\ f.L.all = PagesConcat(f.chain, k)

\* A loop that has returned from a chain of three pages with records on the
\* first and the last.
C4_Witness ==
    /\ fetch # None
    /\ Get(fetch).job = "batch"
    /\ AllSuccess(Get(fetch).chain)
    /\ Len(Get(fetch).chain) = 3
    /\ Get(fetch).L.pc = "returned"
    /\ Len(Get(fetch).chain[1].records) = 2
    /\ Len(Get(fetch).chain[3].records) = 1
    /\ Len(Get(fetch).L.all) >= 3

(***************************************************************************)
(* C7.  Reconciliation is a projection: for any frame and any retrieved    *)
(* target schema, the output has exactly the schema's column names in the  *)
(* schema's order and the input's rows; a column of the schema that the    *)
(* input lacks is null throughout; a column of both has the input's        *)
(* values; a column of the input that the schema lacks is gone.            *)
(***************************************************************************)
C7_ReconcileIsProjection ==
    recon # None /\ Get(recon).out # None /\ Get(recon).schema # None =>
        LET df == Get(recon).df
            out == Get(Get(recon).out)
            names == FieldNames(Get(Get(recon).schema))
        IN  /\ Columns(out) = names
            /\ out.nrows = df.nrows
            /\ \A c \in 1..Len(out.cols) :
                  IF out.cols[c].name \in Labels(df)
                  THEN \E d \in 1..Len(df.cols) : df.cols[d] = out.cols[c]
                  ELSE out.cols[c].values = [r \in 1..df.nrows |-> Null]


(***************************************************************************)
(* What a run asked of the vendor and what the vendor's answers hold,      *)
(* read off the chains themselves.                                         *)
(***************************************************************************)
FailedGets(trace) == {i \in 1..Len(trace) : trace[i].op = "get" /\ trace[i].status # OK200}
Wrote(ops) == "to_gbq_append" \in Range(ops) \/ "to_gbq_replace" \in Range(ops)
JobStep(job) == run'.job = job /\ left' = left - 1

\* The pages of a chain up to and including its first non-200 page, and the
\* records of the pages before it.
FirstFailure(chain) == CHOOSE i \in 1..Len(chain) :
                          /\ chain[i].status # OK200
                          /\ \A j \in 1..(i-1) : chain[j].status = OK200
PagesAsked(chain) == IF AllSuccess(chain) THEN Len(chain) ELSE FirstFailure(chain)
RecordsGiven(chain) ==
    PagesConcat(chain, IF AllSuccess(chain) THEN Len(chain) ELSE FirstFailure(chain) - 1)

\* <<account, page>> of every request of a trace, in order.
Asked(trace) ==
    LET gets == Gets(trace)
    IN  [g \in 1..Len(gets) |-> <<Get(gets[g].url).scope.account, Get(gets[g].url).page>>]
\* <<account, page>> of every page the accounts are to be asked for.
ToAsk(accounts, api) ==
    Flatten([i \in 1..Len(accounts) |->
                [p \in 1..PagesAsked(api[accounts[i].id]) |-> <<accounts[i].id, p>>]])
\* <<account, call id>> of every record the accounts' pages give.
Given(accounts, api) ==
    Flatten([i \in 1..Len(accounts) |->
                LET recs == RecordsGiven(api[accounts[i].id])
                IN  [j \in 1..Len(recs) |-> <<accounts[i].id, Lookup(recs[j], k_id)>>]])

(***************************************************************************)
(* C5.  In the accounts sync and in the daily sync a non-200 answer to any *)
(* request is the last thing the run asks: the run raises out of main with *)
(* status FAILED, hands no frame to to_gbq and leaves the dataset as it    *)
(* was, however many pages and accounts were fetched before.               *)
(***************************************************************************)
C5_NonSuccessFailsRun ==
    [][ (JobStep("accounts") \/ JobStep("daily")) /\ FailedGets(run'.trace) # {} =>
            /\ run'.status = "FAILED"
            /\ run'.raised
            /\ FailedGets(run'.trace) = {Len(run'.trace)}
            /\ ~Wrote(run'.ops)
            /\ run'.df = None
            /\ dataset' = dataset ]_vars

\* A daily sync that failed on the second page of its second account.
C5_Witness ==
    /\ run.job = "daily"
    /\ run.status = "FAILED"
    /\ Len(Gets(run.trace)) >= 3
    /\ LET asked == Asked(run.trace)
       IN  /\ asked[Len(asked)][2] = 2
           /\ asked[Len(asked)][1] # asked[1][1]
    /\ run.trace[Len(run.trace)].status # OK200
    /\ run.all # <<>>

(***************************************************************************)
(* C6.  In the batch job a non-200 answer ends the pagination of that      *)
(* account only: the run does not raise, every account of the slice is     *)
(* asked, page after page up to its first non-200 page, the records of the *)
(* pages before it are kept, and the records kept for all the accounts are *)
(* the rows of the batch's table (no table is written when there are none).*)
(***************************************************************************)
C6_BatchFailureSkipsRestOfAccount ==
    run.job = "batch" /\ run.info # None /\ Get(run.info).batch_num # None =>
        LET info == Get(run.info)
            name == BatchTable(Get(info.batch_num))
            given == Given(info.batch_accounts, run.input)
        IN  /\ ~run.raised
            /\ Asked(run.trace) = ToAsk(info.batch_accounts, run.input)
            /\ [j \in 1..Len(run.all) |->
                   <<Lookup(run.all[j], k_account_id), Lookup(run.all[j], k_id)>>] = given
            /\ IF given = <<>>
               THEN run.status = "NO_CALLS" /\ ~Wrote(run.ops)
               ELSE /\ run.status = "UPLOADED"
                    /\ HasTable(dataset, name)
                    /\ dataset[name].nrows = Len(given)
                    /\ ColumnOf(dataset[name], k_account_id).values =
                           [j \in 1..Len(given) |-> given[j][1]]
                    /\ ColumnOf(dataset[name], k_id).values =
                           [j \in 1..Len(given) |-> given[j][2]]

\* A batch whose first account failed on its second page and whose last
\* account was still fetched, with the calls of both in the table.
C6_Witness ==
    /\ run.job = "batch"
    /\ run.status = "UPLOADED"
    /\ LET asked == Asked(run.trace)
           failed == FailedGets(Gets(run.trace))
       IN  /\ \E i \in failed : i < Len(asked) /\ asked[i][2] = 2
           /\ asked[Len(asked)][1] # asked[1][1]
    /\ \E i, j \in 1..Len(run.all) :
          Lookup(run.all[i], k_account_id) # Lookup(run.all[j], k_account_id)
    /\ dataset[BatchTable(Get(Get(run.info).batch_num))].nrows = Len(run.all)


(***************************************************************************)
(* C8.  When get_table gives the daily sync no schema (it raised: the      *)
(* table is missing or the warehouse did not answer),                      *)
(* standardize_dataframe_schema returns the frame it was given and main    *)
(* goes on to the append with that frame: the run ends in SUCCESS with the *)
(* frame's rows at the end of the table, or fails in to_gbq itself.        *)
(***************************************************************************)
C8_LookupFailureKeepsFrame ==
    run.job = "daily" /\ "get_table" \in Range(run.ops) /\ run.schema = None =>
        /\ run.before # None
        /\ run.df = run.before
        /\ run.ops = <<"query_accounts", "get_table", "to_gbq_append">>
        /\ run.status \in {"SUCCESS", "FAILED"}
        /\ run.status = "SUCCESS" =>
              /\ ~run.raised
              /\ HasTable(dataset, DailyTable)
              /\ LET t == dataset[DailyTable]
                     df == Get(run.df)
                     off == t.nrows - df.nrows
                 IN  /\ off >= 0
                     /\ \A c \in Labels(df) : \A r \in 1..df.nrows :
                           ColumnOf(t, c).values[off + r] = ColumnOf(df, c).values[r]

\* The table was there, get_table did not answer, and the unreconciled
\* rows were appended after the rows the table had.
C8_Witness ==
    /\ run.job = "daily"
    /\ run.status = "SUCCESS"
    /\ "get_table" \in Range(run.ops)
    /\ run.schema = None
    /\ Get(run.df).nrows >= 2
    /\ dataset[DailyTable].nrows > Get(run.df).nrows

(***************************************************************************)
(* C9.  A daily sync whose every request is answered 200 with no call      *)
(* asks every account for every page, ends in SUCCESS without raising,     *)
(* calls neither get_table nor to_gbq, and leaves the dataset as it was.   *)
(***************************************************************************)
C9_NoCallsIsSuccessWithoutWrite ==
    [][ /\ JobStep("daily")
        /\ HasTable(dataset, AccountsTable)
        /\ \A id \in DOMAIN run'.input :
              AllSuccess(run'.input[id]) /\ RecordsGiven(run'.input[id]) = <<>>
        => /\ run'.status = "SUCCESS"
           /\ ~run'.raised
           /\ Asked(run'.trace) = ToAsk(AccountRows(dataset), run'.input)
           /\ run'.ops = <<"query_accounts">>
           /\ run'.df = None
           /\ dataset' = dataset ]_vars

\* Two accounts, three empty pages between them, and a daily table that an
\* earlier run had written.
C9_Witness ==
    /\ run.job = "daily"
    /\ run.status = "SUCCESS"
    /\ run.all = <<>>
    /\ Len(Gets(run.trace)) >= 3
    /\ FailedGets(run.trace) = {}
    /\ HasTable(dataset, DailyTable)

(***************************************************************************)
(* C10.  The rows of the accounts table against the accounts of the        *)
(* latest listing.                                                         *)
(***************************************************************************)
Listing(chain) == PagesConcat(chain, Len(chain))
ListedIds(accounts) ==
    [i \in 1..Len(accounts) |->
        IF HasKey(accounts[i], k_id) THEN Lookup(accounts[i], k_id) ELSE Null]
TableIds(ds) ==
    IF ~HasTable(ds, AccountsTable) THEN <<>>
    ELSE IF k_id \in Labels(ds[AccountsTable])
    THEN ColumnOf(ds[AccountsTable], k_id).values
    ELSE [i \in 1..ds[AccountsTable].nrows |-> Null]
\* Some account of the listing has one of the columns the job keeps.
Usable(accounts) ==
    \E i \in 1..Len(accounts) : \E c \in Range(columns_to_keep) : HasKey(accounts[i], c)

\* C10 as stated: after every accounts sync that completes without
\* raising, the rows of the accounts table are exactly the accounts the
\* vendor listed in that run.
C10_TableIsLatestListing ==
    run.job = "accounts" /\ ~run.raised =>
        TableIds(dataset) = ListedIds(Listing(run.input))

\* C10 amended: after an accounts sync that completes without raising and
\* whose listing has an account with one of the kept columns, the rows of
\* the accounts table are exactly the accounts of that listing, in the
\* kept columns only; an accounts sync that completes without raising on
\* any other listing leaves the dataset as it was.
C10_TableIsLatestUsableListing ==
    [][ JobStep("accounts") /\ ~run'.raised =>
            LET accounts == Listing(run'.input)
            IN  IF Usable(accounts)
                THEN /\ HasTable(dataset', AccountsTable)
                     /\ dataset'[AccountsTable].nrows = Len(accounts)
                     /\ TableIds(dataset') = ListedIds(accounts)
                     /\ Labels(dataset'[AccountsTable]) \subseteq Range(columns_to_keep)
                     /\ \A t \in DOMAIN dataset' \ {AccountsTable} :
                           t \in DOMAIN dataset /\ dataset'[t] = dataset[t]
                ELSE dataset' = dataset ]_vars

\* A listing of one account replaced the two rows an earlier run had left.
C10_Witness ==
    /\ run.job = "accounts"
    /\ run.status = "SUCCESS"
    /\ Len(Gets(run.trace)) = 2
    /\ HasTable(dataset, DailyTable)
    /\ dataset[AccountsTable].nrows = 1
    /\ TableIds(dataset) = <<Scalar(3)>>


(***************************************************************************)
(* C2.  Whatever batch-job invocations have run since the dataset had no   *)
(* batch table, the batch tables are gapless: if activities_raw_batch_N    *)
(* exists, so do activities_raw_batch_1 .. activities_raw_batch_(N-1).     *)
(***************************************************************************)
C2_BatchTablesGapless ==
    \A n \in BatchNumbers(dataset) : \A k \in 1..(n - 1) : k \in BatchNumbers(dataset)

\* Two invocations have each written the table of their batch.
C2_Witness ==
    /\ BatchNumbers(dataset) = {1, 2}
    /\ run.job = "batch"
    /\ run.status = "UPLOADED"
    /\ Get(Get(run.info).batch_num) = 2

(***************************************************************************)
(* C3.  The slices of the completed batches against the id-sorted list.    *)
(***************************************************************************)
\* The ids of the accounts that batch index n covers in the list.
SliceIds(all_accounts, n) ==
    LET start_idx == (n - 1) * accounts_per_batch
        end_idx == Min(start_idx + accounts_per_batch, Len(all_accounts))
    IN  [i \in 1..(IF end_idx > start_idx THEN end_idx - start_idx ELSE 0) |->
            all_accounts[start_idx + i].id.v]

\* The accounts of the completed batch indices are the accounts their
\* tables were written from.
SlicesStayTheSame ==
    \A n \in DOMAIN backfilled : SliceIds(get_all_accounts(dataset), n) = backfilled[n]
\* No account is in the slices of two completed batches.
NoneSelectedAgain ==
    \A m, n \in DOMAIN backfilled :
        m # n => Range(backfilled[m]) \cap Range(backfilled[n]) = {}
\* Every account at an index that the batch tables cover was in the slice
\* of a completed batch.
NoneSkipped ==
    LET all_accounts == get_all_accounts(dataset)
        covered == Min(accounts_per_batch * Cardinality(BatchNumbers(dataset)),
                       Len(all_accounts))
    IN  \A i \in 1..covered :
            \E n \in DOMAIN backfilled : all_accounts[i].id.v \in Range(backfilled[n])

\* C3 as stated: whatever accounts are added between two invocations, the
\* accounts of the completed batch indices stay the same, none of them is
\* selected again by a later batch and no account is skipped.
C3_SlicingStable == SlicesStayTheSame /\ NoneSelectedAgain /\ NoneSkipped

\* Every added account sorted, when it was added, after the indices that
\* the batch tables of that time covered.
AddedBeyondCompleted ==
    \A i \in 1..Len(added) : added[i].position >= accounts_per_batch * added[i].tables

\* C3 amended: when every account added between two invocations sorts, at
\* the time it is added, at an index of the id-sorted list that no existing
\* batch table covers (index >= 60 * number of batch tables), the accounts
\* of the completed batch indices stay the same, none of them is selected
\* again by a later batch and no account is skipped.
C3_SlicingStableForAddedBeyond ==
    AddedBeyondCompleted => SlicesStayTheSame /\ NoneSelectedAgain /\ NoneSkipped

\* An account was added after the first batch had been completed, beyond
\* its slice, and the second batch has processed it.
C3_Witness ==
    /\ added # <<>>
    /\ AddedBeyondCompleted
    /\ added[1].tables = 1
    /\ 2 \in DOMAIN backfilled
    /\ added[1].id \in Range(backfilled[2])
    /\ Len(backfilled[1]) = accounts_per_batch


(***************************************************************************)
(* C11.  clean_column_name is idempotent: for every name, the empty name   *)
(* and names that start with a digit or hold characters outside            *)
(* [A-Za-z0-9_] included, cleaning the cleaned name gives the cleaned name *)
(* again; and the cleaned name starts with a lower-case letter or an       *)
(* underscore and holds only characters of [a-z0-9_].                      *)
(***************************************************************************)
CleanChars == Range(LowerLetters) \cup Digits \cup {"_"}

C11_CleanIsIdempotent ==
    cleaned # None =>
        LET out == Get(cleaned).out
        IN  /\ Len(out) >= 1 =>
                /\ out[1] # <<>>
                /\ out[1][1] \in Range(LowerLetters) \cup {"_"}
                /\ \A i \in 1..Len(out[1]) : out[1][i] \in CleanChars
                /\ Len(out[1]) \in {Len(Get(cleaned).col), Len(Get(cleaned).col) + 1}
            /\ Len(out) >= 2 => out[2] = out[1]

\* A name that starts with a digit and holds a space and a capital: cleaned
\* once it is _7_q, and cleaned again it is still _7_q.
C11_Witness ==
    /\ cleaned # None
    /\ Get(cleaned).col = <<"7", " ", "Q">>
    /\ Get(cleaned).out = << <<"_", "7", "_", "q">>, <<"_", "7", "_", "q">> >>


(***************************************************************************)
(* C12.  In each of the three pagination loops only the first request      *)
(* carries the parameter set (per_page, and start_date and end_date in the *)
(* daily job), to the endpoint's own URL; every later request is to the    *)
(* next_page URL of the response before it, as it was returned, and        *)
(* carries no parameter set.                                               *)
(***************************************************************************)
OriginalParams(job) ==
    IF job = "daily" THEN {"per_page", "start_date", "end_date"} ELSE {"per_page"}
EndpointOf(job) ==
    IF job = "accounts" THEN AccountsScope ELSE CallsScope(FetchAccount)

C12_ParamsOnFirstRequestOnly ==
    fetch # None =>
        LET f == Get(fetch)
            gets == Gets(f.L.trace)
        IN  \A i \in 1..Len(gets) :
                IF i = 1
                THEN /\ gets[i].params = Some(OriginalParams(f.job))
                     /\ gets[i].url = Some(BaseUrl(EndpointOf(f.job)))
                ELSE /\ gets[i].params = None
                     /\ gets[i].url # None
                     /\ gets[i].url = gets[i-1].next

\* The daily loop has returned after three requests; the URLs it followed
\* carry the parameters of the first request.
C12_Witness ==
    /\ fetch # None
    /\ Get(fetch).job = "daily"
    /\ Get(fetch).L.pc = "returned"
    /\ LET gets == Gets(Get(fetch).L.trace)
       IN  /\ Len(gets) = 3
           /\ gets[1].params = Some({"per_page", "start_date", "end_date"})
           /\ gets[3].params = None
           /\ Get(gets[3].url).query = {"per_page", "start_date", "end_date"}

(***************************************************************************)
(* C13.  In the batch and the daily call fetchers, between two consecutive *)
(* page requests of one account there is exactly one sleep, of             *)
(* SLEEP_SECONDS: the request for page i + 1 comes after the sleep that    *)
(* follows page i.                                                         *)
(***************************************************************************)
C13_OneSleepBetweenRequests ==
    fetch # None /\ Get(fetch).job \in {"batch", "daily"} =>
        LET trace == Get(fetch).L.trace
            isGet(i) == trace[i].op = "get"
        IN  /\ \A i, j \in 1..Len(trace) :
                  (i < j /\ isGet(i) /\ isGet(j) /\ \A m \in (i+1)..(j-1) : ~isGet(m)) =>
                      /\ j = i + 2
                      /\ trace[i + 1] = SleepEvent
                      /\ Get(trace[j].url).page = Get(trace[i].url).page + 1
            /\ \A i \in 1..Len(trace) :
                  trace[i].op = "sleep" => trace[i].status = 1000 \div REQUESTS_PER_SECOND

\* The batch loop has made three requests, with a sleep after the first
\* and after the second.
C13_Witness ==
    /\ fetch # None
    /\ Get(fetch).job = "batch"
    /\ LET trace == Get(fetch).L.trace
       IN  /\ Len(Gets(trace)) = 3
           /\ Len(trace) >= 5
           /\ trace[2] = SleepEvent
           /\ trace[4] = SleepEvent
           /\ trace[5].op = "get"


(***************************************************************************)
(* C14.  Backfill progress: a batch-job invocation that selected batch     *)
(* index n (not "no more batches") and returned normally has left          *)
(* activities_raw_batch_n existing, so that the next invocation selects    *)
(* index n + 1 or reports that all batches are completed.                  *)
(***************************************************************************)
C14_BatchRunLeavesItsTable ==
    run.job = "batch" /\ ~run.raised /\ run.info # None /\ Get(run.info).batch_num # None =>
        LET n == Get(Get(run.info).batch_num)
        IN  /\ HasTable(dataset, BatchTable(n))
            /\ get_next_batch_info(dataset, TRUE).batch_num \in {None, Some(n + 1)}

====
